---- MODULE Spec2Model ----
(***************************************************************************)
(* Model of mem.c: a first-fit allocator over one mmap'ed region.          *)
(*                                                                         *)
(* The region is modelled word by word (one word = 4 bytes).  A            *)
(* block_header is two words: `next` at offset 0 and `size_status` at      *)
(* offset 4 (the ILP32 layout the source assumes: "really + 8 since block  *)
(* header").  Every load and store of the C code is a load or store of one *)
(* word of `mem`, in program order, so headers that overlap each other or  *)
(* a payload alias exactly as they do in the program.                      *)
(*                                                                         *)
(* A load or store through a pointer that is NULL or outside the mapped    *)
(* region is undefined behaviour.  The model does not pick an outcome for  *)
(* it: the call is recorded as never returning (status "fault", or         *)
(* "nullderef" when the pointer is NULL), the                              *)
(* program stops, and no property below is settled by what such a call     *)
(* "would have" done.  A traversal that revisits a block without having    *)
(* changed memory can never leave its loop (status "hang").                 *)
(***************************************************************************)
EXTENDS Integers, FiniteSets, Sequences, TLC

\* ---------------------------------------------------------------- layout
NULL == 0
WordSize == 4
HeaderSize == 8

\* Bounds of the model.
PageWords == 8
\* Longest sequence of calls explored.
MaxCalls == 6

PageSize == WordSize * PageWords
\* mmap returns a page-aligned address far above every size the program stores.
Base == 64 * PageSize

\* An int converted to size_t and reduced modulo d, for d a power of two that
\* divides 2^32: (x mod 2^32) mod d = x mod d, with the nonnegative remainder.
\* All int arithmetic of the model stays far inside 32 bits, where the sum of
\* an int and a size_t converted back to int is the integer sum.
URem(x, d) == x % d

\* C's signed remainder (truncation toward zero).
CRem(a, b) == IF a >= 0 THEN a % b ELSE -((-a) % b)

\* x & 0x1 in two's complement.
Lsb(x) == x % 2
\* x & ~0x1
ClearLsb(x) == x - (x % 2)
\* x | 0x1
SetLsb(x) == x - (x % 2) + 1

\* The words of a region of n bytes mapped at Base.
RegionWords(n) == { Base + WordSize * i : i \in 0 .. (n \div WordSize) - 1 }

EmptyMem == [a \in {} |-> 0]

\* ---------------------------------------------------------------- state
VARIABLES
  list_head,       \* block_header* list_head
  allocated_once,  \* static int allocated_once of Mem_Init
  mem,             \* the mapped region: word address -> 32-bit value
  status,          \* "run", or "fault" / "nullderef" / "hang" once a call
                   \* did not return
  op,              \* the last call: name, argument, returned value (when
                   \* status = "run"; a call that did not return has none)
  live,            \* addresses returned by Mem_Alloc and not freed since
  pre,             \* list_head, mem and live as they were before the last call
  calls,           \* number of calls made so far
  inits,           \* number of Mem_Init calls that returned 0
  nonpos_alloc,    \* some Mem_Alloc so far was called with size <= 0
  req,             \* for each live address, the size asked of Mem_Alloc
  freed            \* addresses freed with success, no allocation since

vars == <<list_head, allocated_once, mem, status, op, live, pre, calls, inits,
         nonpos_alloc, req, freed>>

Snapshot == [list_head |-> list_head, mem |-> mem, live |-> live,
             allocated_once |-> allocated_once, inits |-> inits,
             freed |-> freed]

Init ==
  /\ list_head = NULL
  /\ allocated_once = 0
  /\ mem = EmptyMem
  /\ status = "run"
  /\ op = [name |-> "none", arg |-> 0, ret |-> 0]
  /\ live = {}
  /\ pre = [list_head |-> NULL, mem |-> EmptyMem, live |-> {},
            allocated_once |-> 0, inits |-> 0, freed |-> {}]
  /\ calls = 0
  /\ inits = 0
  /\ nonpos_alloc = FALSE
  /\ req = EmptyMem
  /\ freed = {}

\* A call that did not return: nothing of the program state is observed again.
Stop(name, arg, how) ==
  /\ status' = how
  /\ op' = [name |-> name, arg |-> arg, ret |-> 0]
  /\ pre' = Snapshot
  /\ calls' = calls + 1
  /\ UNCHANGED <<list_head, allocated_once, mem, live, inits, req, freed>>

\* A call that returned r and left the allocator as it was.
ReturnUnchanged(name, arg, r) ==
  /\ op' = [name |-> name, arg |-> arg, ret |-> r]
  /\ pre' = Snapshot
  /\ calls' = calls + 1
  /\ UNCHANGED <<list_head, allocated_once, mem, status, live, inits, req, freed>>

\* ---------------------------------------------------------------- Mem_Init
InitArgs == {-5, 0, 1, PageSize}

\* Mutant: the flag is not consulted.
InitAlreadyDone_Ignored == FALSE

\* if(0 != allocated_once) return -1;
InitAlreadyDone == 0 # allocated_once

\* if(sizeOfRegion <= 0) return -1;
InitBadSize(sizeOfRegion) == sizeOfRegion <= 0

\* alloc_size = sizeOfRegion + padsize
AllocSize(sizeOfRegion) ==
  LET padsize0 == CRem(sizeOfRegion, PageSize)
      padsize  == CRem(PageSize - padsize0, PageSize)
  IN  sizeOfRegion + padsize

\* The region Mem_Init installs: zero-filled, one free block.
FirstBlock(alloc_size) ==
  LET zero == [a \in RegionWords(alloc_size) |-> 0]
      m1   == [zero EXCEPT ![Base] = NULL]
  IN  [m1 EXCEPT ![Base + WordSize] = alloc_size - HeaderSize]

\* open or mmap may fail (envOk = FALSE): returns -1, allocated_once stays 0.
Mem_Init(sizeOfRegion, envOk) ==
  /\ status = "run"
  /\ calls < MaxCalls
  /\ UNCHANGED nonpos_alloc
  /\ IF InitAlreadyDone \/ InitBadSize(sizeOfRegion)
     THEN ReturnUnchanged("Mem_Init", sizeOfRegion, -1)
     ELSE IF ~envOk
     THEN /\ allocated_once' = 0
          /\ op' = [name |-> "Mem_Init", arg |-> sizeOfRegion, ret |-> -1]
          /\ pre' = Snapshot
          /\ calls' = calls + 1
          /\ UNCHANGED <<list_head, mem, status, live, inits, req, freed>>
     ELSE /\ allocated_once' = 1
          /\ list_head' = Base
          /\ mem' = FirstBlock(AllocSize(sizeOfRegion))
          /\ op' = [name |-> "Mem_Init", arg |-> sizeOfRegion, ret |-> 0]
          /\ pre' = Snapshot
          /\ calls' = calls + 1
          /\ inits' = inits + 1
          /\ UNCHANGED <<status, live, req, freed>>

\* ---------------------------------------------------------------- Mem_Alloc
AllocArgs == {-4, -1, 0, 1, 4, 8, 12, 16, PageSize - HeaderSize, PageSize}

\* if(size % 4 != 0) size += (sizeof(block_header) - (size % sizeof(block_header)));
RoundUp(size) ==
  IF CRem(size, 4) # 0
  THEN size + (HeaderSize - URem(size, HeaderSize))
  ELSE size

\* int block_size = size + sizeof(block_header);
BlockSize(size) == size + HeaderSize

\* The loop condition on one block: it is passed over iff it is too small and
\* its busy bit is clear.
AllocSkips(size_status, block_size) ==
  size_status < block_size /\ Lsb(size_status) # 1

\* while(current != NULL && current->size_status < block_size && ...)
RECURSIVE AllocScan(_, _, _, _)
AllocScan(m, current, block_size, visited) ==
  IF current = NULL THEN [k |-> "null", cur |-> NULL]
  ELSE IF current + WordSize \notin DOMAIN m THEN [k |-> "fault", cur |-> current]
  ELSE IF AllocSkips(m[current + WordSize], block_size)
  THEN IF current \notin DOMAIN m THEN [k |-> "fault", cur |-> current]
       ELSE IF current \in visited THEN [k |-> "hang", cur |-> current]
       ELSE AllocScan(m, m[current], block_size, visited \cup {current})
  ELSE [k |-> "found", cur |-> current]

\* block_header* split = (block_header*) ((char*) current + size);
SplitAddr(current, size) == current + size

\* The four stores of lines 138-154, in program order.
AllocStores(m, current, size) ==
  LET split == SplitAddr(current, size)
      m1 == [m  EXCEPT ![split] = m[current]]
      m2 == [m1 EXCEPT ![current] = split]
      m3 == [m2 EXCEPT ![split + WordSize] =
                           m2[current + WordSize] - BlockSize(size)]
  IN  [m3 EXCEPT ![current + WordSize] = SetLsb(size)]

Mem_Alloc(size0) ==
  /\ status = "run"
  /\ calls < MaxCalls
  /\ nonpos_alloc' = (nonpos_alloc \/ size0 <= 0)
  /\ IF list_head = NULL
     THEN ReturnUnchanged("Mem_Alloc", size0, NULL)
     ELSE
       LET size == RoundUp(size0)
           s    == AllocScan(mem, list_head, BlockSize(size), {})
           split == SplitAddr(s.cur, size)
       IN  CASE s.k = "null"  -> ReturnUnchanged("Mem_Alloc", size0, NULL)
             [] s.k = "hang"  -> Stop("Mem_Alloc", size0, "hang")
             [] s.k = "fault" -> Stop("Mem_Alloc", size0, "fault")
             [] s.k = "found" ->
                  IF \/ s.cur \notin DOMAIN mem
                     \/ split \notin DOMAIN mem
                     \/ split + WordSize \notin DOMAIN mem
                  THEN Stop("Mem_Alloc", size0, "fault")
                  ELSE /\ mem' = AllocStores(mem, s.cur, size)
                       /\ live' = live \cup {s.cur + HeaderSize}
                       /\ freed' = {}
                       /\ req' = [p \in live \cup {s.cur + HeaderSize} |->
                                   IF p = s.cur + HeaderSize THEN size0 ELSE req[p]]
                       /\ op' = [name |-> "Mem_Alloc", arg |-> size0,
                                 ret |-> s.cur + HeaderSize]
                       /\ pre' = Snapshot
                       /\ calls' = calls + 1
                       /\ UNCHANGED <<list_head, allocated_once, status, inits>>

\* ---------------------------------------------------------------- Mem_Free
FreeArgs == {NULL} \cup RegionWords(PageSize)

\* if(ptr == NULL || (check->size_status & 0x1) != 0x1) return -1;
\* check is ptr itself, so check->size_status is the word at ptr + 4.
FreeCheckWord(ptr) == ptr + WordSize

\* if((current->size_status & 0x1) == 0x1) if(current + 1 == ptr)
FreeMatches(m, current, ptr) ==
  Lsb(m[current + WordSize]) = 1 /\ current + HeaderSize = ptr

\* The words the matched branch loads or stores besides those of current.
FreeTouches(previous, current, next) ==
  (IF previous # NULL THEN {previous, previous + WordSize} ELSE {})
  \cup (IF next # NULL THEN {next, next + WordSize} ELSE {})

\* current->size_status = current->size_status &= ~(0x1);
FreeFlagOnly(m, current) ==
  [m EXCEPT ![current + WordSize] = ClearLsb(m[current + WordSize])]

\* Lines 219-223 and 300-314: current absorbs next.
FreeMergeNext(m, current, next) ==
  LET m1 == [m  EXCEPT ![current + WordSize] =
                 m[current + WordSize] + HeaderSize + m[next + WordSize]]
      m2 == [m1 EXCEPT ![current + WordSize] = ClearLsb(m1[current + WordSize])]
  IN  [m2 EXCEPT ![current] = m2[next]]

\* Lines 244-248: previous absorbs current, the last block.
FreeMergePrevLast(m, previous, current) ==
  LET m1 == [m  EXCEPT ![previous + WordSize] =
                 m[previous + WordSize] + HeaderSize + m[current + WordSize]]
      m2 == [m1 EXCEPT ![previous + WordSize] = ClearLsb(m1[previous + WordSize])]
  IN  [m2 EXCEPT ![previous] = NULL]

\* Lines 322-326: previous absorbs current, next stays.
FreeMergePrev(m, previous, current) ==
  LET m1 == [m  EXCEPT ![previous + WordSize] =
                 m[previous + WordSize] + HeaderSize + m[current + WordSize]]
      m2 == [m1 EXCEPT ![previous + WordSize] = ClearLsb(m1[previous + WordSize])]
  IN  [m2 EXCEPT ![previous] = m2[current]]

\* Lines 278-292: previous absorbs current and next.
FreeMergeBoth(m, previous, current, next) ==
  LET m1 == [m  EXCEPT ![previous + WordSize] =
                 m[previous + WordSize] + HeaderSize + m[current + WordSize]
                   + HeaderSize + m[next + WordSize]]
      m2 == [m1 EXCEPT ![previous + WordSize] = ClearLsb(m1[previous + WordSize])]
  IN  [m2 EXCEPT ![previous] = m2[next]]

\* Lines 205-331: the branch taken once current is the block of ptr.
FreeBlock(m, previous, current, next) ==
  LET prevBusy == Lsb(m[previous + WordSize]) = 1
      nextBusy == Lsb(m[next + WordSize]) = 1
  IN  IF previous = NULL /\ next = NULL THEN FreeFlagOnly(m, current)
      ELSE IF previous = NULL
      THEN IF ~nextBusy THEN FreeMergeNext(m, current, next)
           ELSE FreeFlagOnly(m, current)
      ELSE IF next = NULL
      THEN IF ~prevBusy THEN FreeMergePrevLast(m, previous, current)
           ELSE FreeFlagOnly(m, current)
      ELSE IF prevBusy /\ nextBusy THEN FreeFlagOnly(m, current)
      ELSE IF ~prevBusy /\ ~nextBusy THEN FreeMergeBoth(m, previous, current, next)
      ELSE IF prevBusy THEN FreeMergeNext(m, current, next)
      ELSE FreeMergePrev(m, previous, current)

\* while(current != NULL) { ... previous = current; current = current->next;
\*                          next = current->next; }
\* The load `next = current->next` of line 337 is undefined once current is
\* NULL.  Its value is never used after that, so a build either performs the
\* load (deadLoad = FALSE: the access faults) or drops it (deadLoad = TRUE:
\* the loop ends and line 341 returns -1).
RECURSIVE FreeScan(_, _, _, _, _, _, _)
FreeScan(m, ptr, previous, current, next, visited, deadLoad) ==
  IF current = NULL THEN [k |-> "notfound", m |-> m]
  ELSE IF current + WordSize \notin DOMAIN m THEN [k |-> "fault", m |-> m]
  ELSE IF FreeMatches(m, current, ptr)
  THEN IF FreeTouches(previous, current, next) \subseteq DOMAIN m
       THEN [k |-> "freed", m |-> FreeBlock(m, previous, current, next)]
       ELSE [k |-> "fault", m |-> m]
  ELSE IF current \notin DOMAIN m THEN [k |-> "fault", m |-> m]
  ELSE IF m[current] = NULL /\ deadLoad THEN [k |-> "notfound", m |-> m]
  ELSE IF m[current] = NULL THEN [k |-> "nullderef", m |-> m]
  ELSE IF m[current] \notin DOMAIN m THEN [k |-> "fault", m |-> m]
  ELSE IF m[current] \in visited \cup {current} THEN [k |-> "hang", m |-> m]
  ELSE FreeScan(m, ptr, current, m[current], m[m[current]],
                visited \cup {current}, deadLoad)

Mem_Free(ptr, deadLoad) ==
  /\ status = "run"
  /\ calls < MaxCalls
  /\ UNCHANGED nonpos_alloc
  /\ IF ptr = NULL THEN ReturnUnchanged("Mem_Free", ptr, -1)
     ELSE IF FreeCheckWord(ptr) \notin DOMAIN mem THEN Stop("Mem_Free", ptr, "fault")
     ELSE IF Lsb(mem[FreeCheckWord(ptr)]) # 1 THEN ReturnUnchanged("Mem_Free", ptr, -1)
     ELSE IF list_head = NULL THEN Stop("Mem_Free", ptr, "nullderef")
     ELSE IF list_head \notin DOMAIN mem THEN Stop("Mem_Free", ptr, "fault")
     ELSE
       LET s == FreeScan(mem, ptr, NULL, list_head, mem[list_head], {}, deadLoad)
       IN  CASE s.k = "notfound" -> ReturnUnchanged("Mem_Free", ptr, -1)
             [] s.k = "fault"    -> Stop("Mem_Free", ptr, "fault")
             [] s.k = "nullderef" -> Stop("Mem_Free", ptr, "nullderef")
             [] s.k = "hang"     -> Stop("Mem_Free", ptr, "hang")
             [] s.k = "freed"    ->
                  /\ mem' = s.m
                  /\ live' = live \ {ptr}
                  /\ freed' = freed \cup {ptr}
                  /\ req' = [p \in live \ {ptr} |-> req[p]]
                  /\ op' = [name |-> "Mem_Free", arg |-> ptr, ret |-> 0]
                  /\ pre' = Snapshot
                  /\ calls' = calls + 1
                  /\ UNCHANGED <<list_head, allocated_once, status, inits>>

\* ---------------------------------------------------------------- the caller
\* The program using the allocator stores a word into a payload it was given:
\* any whole word of the `size` bytes it asked for at a live address.
StoreValues == {0, 1}

StoreAddrs == {a \in DOMAIN mem :
                 \E p \in live : p <= a /\ a + WordSize <= p + req[p]}

Store(a, v) ==
  /\ status = "run"
  /\ calls < MaxCalls
  /\ a \in StoreAddrs
  /\ mem' = [mem EXCEPT ![a] = v]
  /\ op' = [name |-> "store", arg |-> a, ret |-> v]
  /\ pre' = Snapshot
  /\ calls' = calls + 1
  /\ UNCHANGED <<list_head, allocated_once, status, live, inits, nonpos_alloc, req,
                 freed>>

\* ---------------------------------------------------------------- Mem_Dump
\* Mutant: the loop body runs before current is compared with NULL.
RECURSIVE DumpScan_TestAfter(_, _, _, _, _, _)
DumpScan_TestAfter(m, current, busy_size, free_size, counter, visited) ==
  IF ~({current, current + WordSize} \subseteq DOMAIN m)
  THEN [k |-> "fault", busy |-> busy_size, free |-> free_size, n |-> counter - 1]
  ELSE IF m[current] = NULL
  THEN [k |-> "done", busy |-> busy_size, free |-> free_size, n |-> counter]
  ELSE IF current \in visited
  THEN [k |-> "hang", busy |-> busy_size, free |-> free_size, n |-> counter - 1]
  ELSE DumpScan_TestAfter(m, m[current], busy_size, free_size, counter + 1,
                          visited \cup {current})

\* while(NULL != current) { ... current = current->next; }
\* Accumulates busy_size and free_size, each block counted with its header.
RECURSIVE DumpScan(_, _, _, _, _, _)
DumpScan(m, current, busy_size, free_size, counter, visited) ==
  IF current = NULL
  THEN [k |-> "done", busy |-> busy_size, free |-> free_size, n |-> counter - 1]
  ELSE IF ~({current, current + WordSize} \subseteq DOMAIN m)
  THEN [k |-> "fault", busy |-> busy_size, free |-> free_size, n |-> counter - 1]
  ELSE IF current \in visited
  THEN [k |-> "hang", busy |-> busy_size, free |-> free_size, n |-> counter - 1]
  ELSE LET Size == m[current + WordSize] IN
       IF Lsb(Size) = 1
       THEN DumpScan(m, m[current], busy_size + (Size - 1) + HeaderSize, free_size,
                     counter + 1, visited \cup {current})
       ELSE DumpScan(m, m[current], busy_size, free_size + Size + HeaderSize,
                     counter + 1, visited \cup {current})

\* The call returns nothing; op.ret records the printed "Total size".
Mem_Dump ==
  /\ status = "run"
  /\ calls < MaxCalls
  /\ UNCHANGED nonpos_alloc
  /\ LET s == DumpScan(mem, list_head, 0, 0, 1, {})
     IN  CASE s.k = "done"  -> ReturnUnchanged("Mem_Dump", s.n, s.busy + s.free)
           [] s.k = "fault" -> Stop("Mem_Dump", 0, "fault")
           [] s.k = "hang"  -> Stop("Mem_Dump", 0, "hang")

Next ==
  \/ \E n \in InitArgs, ok \in BOOLEAN : Mem_Init(n, ok)
  \/ \E n \in AllocArgs : Mem_Alloc(n)
  \/ \E p \in FreeArgs, deadLoad \in BOOLEAN : Mem_Free(p, deadLoad)
  \/ Mem_Dump
  \/ \E a \in RegionWords(PageSize), v \in StoreValues : Store(a, v)

Spec == Init /\ [][Next]_vars
\* ---------------------------------------------------------------- properties
\* The last call returned to its caller.
Returned == status = "run"

\* The last call left list_head and every word of the region as they were.
Untouched == mem = pre.mem /\ list_head = pre.list_head

RegionEnd(m) == Base + WordSize * Cardinality(DOMAIN m)

IsHeader(m, b) == {b, b + WordSize} \subseteq DOMAIN m
Busy(m, b) == Lsb(m[b + WordSize]) = 1
Magnitude(m, b) == ClearLsb(m[b + WordSize])
BlockEnd(m, b) == b + HeaderSize + Magnitude(m, b)

\* The headers reached from cur by next links, up to the first link that is
\* NULL, leaves the region or returns to a header already visited.
RECURSIVE ListFrom(_, _, _)
ListFrom(m, cur, seen) ==
  IF cur = NULL \/ ~IsHeader(m, cur) \/ cur \in seen THEN seen
  ELSE ListFrom(m, m[cur], seen \cup {cur})

ListBlocks(m, head) == ListFrom(m, head, {})

\* From header b on, every block ends where the next one starts, at a higher
\* address, and the last one ends at the end of the region.
RECURSIVE TilesFrom(_, _)
TilesFrom(m, b) ==
  /\ IsHeader(m, b)
  /\ Magnitude(m, b) >= 0
  /\ IF m[b] = NULL THEN BlockEnd(m, b) = RegionEnd(m)
     ELSE m[b] > b /\ m[b] = BlockEnd(m, b) /\ TilesFrom(m, m[b])

\* The free blocks of the list whose span is at least `needed`.
FreeWithSpan(m, head, needed) ==
  {b \in ListBlocks(m, head) : ~Busy(m, b) /\ m[b + WordSize] + HeaderSize >= needed}

\* The free blocks of the list the scan of Mem_Alloc(size0) accepts.
FreeFitting(m, head, size0) ==
  {b \in ListBlocks(m, head) :
     ~Busy(m, b) /\ ~AllocSkips(m[b + WordSize], BlockSize(RoundUp(size0)))}

Lowest(S) == CHOOSE x \in S : \A y \in S : x <= y

\* Every Mem_Alloc so far asked for a positive size.
PositiveRequests == ~nonpos_alloc

\* C1: a successful Mem_Alloc returns the payload address of a block that was
\* free and not live at the call, and live payloads never overlap.  (Stated
\* for callers that only ever ask for positive sizes.)
C1_AllocOnlyFreeBlock ==
  PositiveRequests =>
    /\ (Returned /\ op.name = "Mem_Alloc" /\ op.ret # NULL)
          => /\ op.ret \notin pre.live
             /\ ~Busy(pre.mem, op.ret - HeaderSize)
    /\ Returned => \A p1 \in live, p2 \in live :
                     p1 < p2 => p1 + Magnitude(mem, p1 - HeaderSize) <= p2

\* C2: once initialized, the block list exactly tiles the region: headers at
\* increasing addresses, each block ending where the next starts, the last
\* one at the end of the region.
C2_ListTilesRegion ==
  (PositiveRequests /\ Returned /\ list_head # NULL) => TilesFrom(mem, list_head)

\* The allocator right after Mem_Init(r) and a successful Mem_Alloc(n), n > 0,
\* with the returned pointer as the argument of the Mem_Free that followed.
FreshAllocThenFree ==
  /\ op.name = "Mem_Free"
  /\ op.arg = Base + HeaderSize
  /\ pre.live = {op.arg}
  /\ pre.list_head = Base
  /\ \E r \in InitArgs, n \in AllocArgs :
        /\ r > 0 /\ n > 0
        /\ AllocScan(FirstBlock(AllocSize(r)), Base, BlockSize(RoundUp(n)), {}).k = "found"
        /\ pre.mem = AllocStores(FirstBlock(AllocSize(r)), Base, RoundUp(n))

\* C3: restoration law: Mem_Alloc(n) on a fresh allocator followed by Mem_Free
\* of the result returns 0 and leaves one free block spanning the region.
C3_Restoration ==
  FreshAllocThenFree =>
    /\ Returned /\ op.ret = 0
    /\ mem[list_head] = NULL
    /\ mem[list_head + WordSize] = (RegionEnd(mem) - Base) - HeaderSize

\* C4: Mem_Free of a live pointer (returned by Mem_Alloc, not freed since)
\* returns 0 and leaves its block free, whatever the payload holds.
C4_FreeLivePointer ==
  (PositiveRequests /\ Returned /\ op.name = "Mem_Free" /\ op.arg \in pre.live)
     => /\ op.ret = 0
        /\ ~Busy(mem, op.arg - HeaderSize)

\* C5: after any sequence of calls, no two consecutive blocks of the list are
\* both free.
C5_NoAdjacentFree ==
  (PositiveRequests /\ Returned /\ list_head # NULL) =>
     \A b \in ListBlocks(mem, list_head) :
        (mem[b] # b /\ IsHeader(mem, mem[b])) => (Busy(mem, b) \/ Busy(mem, mem[b]))

\* C6: first-fit: with two or more free blocks large enough in the list,
\* Mem_Alloc returns the payload address (header + header size) of the one at
\* the lowest address, whatever precedes it.
C6_FirstFit ==
  (/\ PositiveRequests /\ Returned /\ op.name = "Mem_Alloc"
   /\ Cardinality(FreeFitting(pre.mem, pre.list_head, op.arg)) >= 2)
     => op.ret = Lowest(FreeFitting(pre.mem, pre.list_head, op.arg)) + HeaderSize

\* C7: Mem_Alloc returns NULL and changes no header when the allocator is
\* uninitialized or no free block of the list is large enough, however many
\* busy blocks there are.
C7_AllocFailsWithoutFit ==
  (/\ PositiveRequests /\ Returned /\ op.name = "Mem_Alloc"
   /\ \/ pre.list_head = NULL
      \/ FreeWithSpan(pre.mem, pre.list_head, BlockSize(RoundUp(op.arg))) = {})
     => op.ret = NULL /\ Untouched

\* C8: Mem_Init and Mem_Alloc called with a size <= 0 return the failure value
\* (-1, NULL) and change nothing.
C8_NonPositiveRejected ==
  (Returned /\ op.name \in {"Mem_Init", "Mem_Alloc"} /\ op.arg <= 0)
     => /\ Untouched
        /\ op.ret = (IF op.name = "Mem_Init" THEN -1 ELSE NULL)

\* C9: Mem_Init succeeds at most once: after one Mem_Init returned 0, every
\* later Mem_Init returns -1 and leaves list_head and the region unchanged.
C9_SingleInit ==
  /\ inits <= 1
  /\ (op.name = "Mem_Init" /\ pre.inits >= 1)
        => Returned /\ op.ret = -1 /\ Untouched

\* A Mem_Init with a valid size, after a successful one and after the list
\* was changed by an allocation, was refused.
C9_Witness ==
  /\ op.name = "Mem_Init" /\ pre.inits = 1 /\ op.arg > 0
  /\ Returned /\ op.ret = -1
  /\ list_head = Base /\ live # {}

\* C10: Mem_Free of NULL, or of an address that is not the payload start of a
\* block of the list, returns -1 and changes nothing.  (Stated for addresses
\* p with p and p + 4 inside the region, so that the call itself reads no
\* memory outside the region.)
C10_InvalidFreeRejected ==
  (/\ PositiveRequests /\ op.name = "Mem_Free"
   /\ \/ op.arg = NULL
      \/ /\ {op.arg, op.arg + WordSize} \subseteq DOMAIN pre.mem
         /\ op.arg - HeaderSize \notin ListBlocks(pre.mem, pre.list_head))
     => Returned /\ op.ret = -1 /\ Untouched

\* C11: double free: Mem_Free of the payload address of a block that is free
\* (freed with success before, no allocation since) returns -1 and changes no
\* header.  (Stated for calls whose scan meets neither a cycle of the list nor
\* a link that leaves the region.)
C11_DoubleFreeRejected ==
  (/\ PositiveRequests /\ op.name = "Mem_Free" /\ status \notin {"hang", "fault"}
   /\ op.arg \in pre.freed
   /\ IsHeader(pre.mem, op.arg - HeaderSize)
   /\ ~Busy(pre.mem, op.arg - HeaderSize))
     => Returned /\ op.ret = -1 /\ Untouched

\* What Mem_Dump would print as "Total size" for the list of m.
DumpTotal(m, head) ==
  LET s == DumpScan(m, head, 0, 0, 1, {}) IN s.busy + s.free

\* C12: size conservation: once initialized, the sum over the blocks of the
\* list of header size + size magnitude (the "Total size" of Mem_Dump) equals
\* the size of the region.  (Stated for lists Mem_Dump walks to their end.)
C12_SizeConserved ==
  (/\ PositiveRequests /\ Returned /\ list_head # NULL
   /\ DumpScan(mem, list_head, 0, 0, 1, {}).k = "done")
     => DumpTotal(mem, list_head) = RegionEnd(mem) - Base

\* C13: round-trip sizing: after a successful Mem_Alloc(n), n > 0, the payload
\* size s of the returned block satisfies n <= s < n + header size, where s
\* is the magnitude in the block's header and also the number of bytes from
\* the returned address to the next block's header.
C13_RoundTripSizing ==
  (/\ PositiveRequests /\ Returned /\ op.name = "Mem_Alloc" /\ op.ret # NULL)
     => LET b == op.ret - HeaderSize
            s == Magnitude(mem, b)
        IN  /\ op.arg <= s /\ s < op.arg + HeaderSize
            /\ mem[b] # NULL
            /\ mem[b] - op.ret = s

C15_SplitPostcondition ==
  (/\ PositiveRequests /\ Returned /\ op.name = "Mem_Alloc" /\ op.ret # NULL
   /\ ~Busy(pre.mem, op.ret - HeaderSize))
     => LET b == op.ret - HeaderSize
            S == pre.mem[b + WordSize]
            X == pre.mem[b]
            R == RoundUp(op.arg)
            new == mem[b]
        IN  /\ Busy(mem, b) /\ Magnitude(mem, b) = R
            /\ IsHeader(mem, new)
            /\ mem[new + WordSize] = S - R - HeaderSize
            /\ mem[new] = X
            /\ \A a \in DOMAIN mem :
                 a \notin {b, b + WordSize, new, new + WordSize} => mem[a] = pre.mem[a]

\* The first free block of the list whose span is at least the rounded
\* request plus one header, when splitting it would leave less than a header.
TightFit(m, head, size0) ==
  LET fit == FreeWithSpan(m, head, BlockSize(RoundUp(size0)))
  IN  /\ fit # {}
      /\ m[Lowest(fit) + WordSize] - RoundUp(size0) < HeaderSize

\* C16: no split on a tight fit: when the first free block that is large
\* enough would leave a remainder smaller than a header, Mem_Alloc(n) succeeds
\* with that whole block and the number of blocks is unchanged.
C16_NoSplitOnTightFit ==
  (/\ PositiveRequests /\ Returned /\ op.name = "Mem_Alloc"
   /\ pre.list_head # NULL
   /\ TilesFrom(pre.mem, pre.list_head)
   /\ TightFit(pre.mem, pre.list_head, op.arg))
     => /\ op.ret = Lowest(FreeWithSpan(pre.mem, pre.list_head,
                                        BlockSize(RoundUp(op.arg)))) + HeaderSize
        /\ Busy(mem, op.ret - HeaderSize)
        /\ ListBlocks(mem, list_head) = ListBlocks(pre.mem, pre.list_head)

\* The block of the list Mem_Free(ptr) frees, with its list neighbours:
\* the first busy block whose payload starts at ptr.
RECURSIVE FreePlace(_, _, _, _, _)
FreePlace(m, ptr, previous, current, seen) ==
  IF current = NULL \/ ~IsHeader(m, current) \/ current \in seen
  THEN [found |-> FALSE, prev |-> NULL, cur |-> NULL, next |-> NULL]
  ELSE IF Busy(m, current) /\ current + HeaderSize = ptr
  THEN [found |-> TRUE, prev |-> previous, cur |-> current, next |-> m[current]]
  ELSE FreePlace(m, ptr, current, m[current], seen \cup {current})

\* C17: coalescing arithmetic: a successful Mem_Free leaves one free block
\* for the freed block and its free immediate neighbours: at the lowest of
\* their addresses, with magnitude the sum of their magnitudes plus one
\* header per absorbed block, and with the next link of the highest of them;
\* with no free neighbour only the busy flag of the freed block changes.
C17_Coalescing ==
  (PositiveRequests /\ Returned /\ op.name = "Mem_Free" /\ op.ret = 0)
     => LET f == FreePlace(pre.mem, op.arg, NULL, pre.list_head, {})
            m0 == pre.mem
            prevFree == f.prev # NULL /\ ~Busy(m0, f.prev)
            nextFree == f.next # NULL /\ ~Busy(m0, f.next)
            merged == {f.cur} \cup (IF prevFree THEN {f.prev} ELSE {})
                              \cup (IF nextFree THEN {f.next} ELSE {})
            low == Lowest(merged)
            high == CHOOSE x \in merged : \A y \in merged : y <= x
            total == Magnitude(m0, f.cur)
                     + (IF prevFree THEN HeaderSize + Magnitude(m0, f.prev) ELSE 0)
                     + (IF nextFree THEN HeaderSize + Magnitude(m0, f.next) ELSE 0)
        IN  /\ f.found
            /\ mem[low + WordSize] = total
            /\ mem[low] = m0[high]
            /\ (~prevFree /\ ~nextFree) =>
                  mem = [m0 EXCEPT ![f.cur + WordSize] = ClearLsb(m0[f.cur + WordSize])]

\* C18: Mem_Free never loads through a null block pointer: no call with a
\* non-null ptr ends in a null dereference (the way a scan that ran off the
\* end of the list without a match ends when it does not return -1).
C18_NoNullDeref ==
  (PositiveRequests /\ op.name = "Mem_Free" /\ op.arg # NULL)
     => status # "nullderef"

\* C19: once the allocator is initialized, every block of the list has a
\* size magnitude that is non-negative, a multiple of 4, and no more than the
\* bytes between the end of its header and the end of the region.
C19_SizeWithinRegion ==
  (PositiveRequests /\ Returned /\ list_head # NULL)
     => \A b \in ListBlocks(mem, list_head) :
           /\ Magnitude(mem, b) >= 0
           /\ Magnitude(mem, b) % WordSize = 0
           /\ b + HeaderSize + Magnitude(mem, b) <= RegionEnd(mem)

\* Following next links from cur comes back to a header already visited.
RECURSIVE CycleFrom(_, _, _)
CycleFrom(m, cur, seen) ==
  IF cur = NULL \/ ~IsHeader(m, cur) THEN FALSE
  ELSE IF cur \in seen THEN TRUE
  ELSE CycleFrom(m, m[cur], seen \cup {cur})

\* C20: the list reachable from list_head is finite and acyclic, and no
\* traversal of it (Mem_Dump, Mem_Alloc, Mem_Free) runs forever.  (Stated
\* for callers that only ever ask for positive sizes; the claim allows any.)
C20_ListAcyclic ==
  PositiveRequests
     => /\ status # "hang"
        /\ ~CycleFrom(mem, list_head, {})

====
